---- MODULE Spec2Model ----
(***************************************************************************)
(* Model of librelic-sys/wrapper.c and wrapper.h: the C layer that wraps   *)
(* the RELIC arithmetic engine for the scalar ring Zr, the groups G1, G2,  *)
(* GT and the pairing of a pairing-friendly curve.                         *)
(*                                                                         *)
(* The engine (bn_*, g1_*, g2_*, gt_*, pc_map) is modelled by what it      *)
(* computes on a scaled-down curve: group order r = CurveOrder, curve      *)
(* groups Z_(h*r) written additively with the order-r subgroup being the   *)
(* multiples of the cofactor h, and GT the order-r subgroup of the units   *)
(* of the prime field F_GtPrime.                                           *)
(***************************************************************************)
EXTENDS Integers, Sequences, FiniteSets, TLC

(* ---------------------------- program constants ------------------------ *)

\* ep_curve_get_ord(order): the group order r of the configured curve.
CurveOrder == 7

\* ALLOC == AUTO: a bn_t is a fixed array, bn_read_bin raises ERR_NO_PRECI
\* when the input needs more room than the array has (here: bytes).
BnCapBytes == 2

\* uint8_t
ByteRadix == 256

RLC_OK == "RLC_OK"
RLC_ERR == "RLC_ERR"

(* ------------------------------- bounds -------------------------------- *)

\* longest byte string handed to a read function
MaxLen == 3

\* magnitude up to which negative scalar values are followed
MaxAbs == 7

\* the bytes the inputs are drawn from: 0, a canonical value, r
ByteVals == {0, 3, CurveOrder}

\* scalar objects the caller owns
Regs == 1 .. 2

RECURSIVE SeqsUpTo(_)
SeqsUpTo(n) ==
  IF n = 0 THEN {<<>>}
  ELSE LET S == SeqsUpTo(n - 1)
       IN S \cup {Append(s, b) : s \in {t \in S : Len(t) = n - 1}, b \in ByteVals}

\* every string that fits a bn_t, and one string of each longer length
ByteStrings ==
  SeqsUpTo(IF MaxLen < BnCapBytes THEN MaxLen ELSE BnCapBytes)
    \cup {[i \in 1 .. n |-> CurveOrder] : n \in (BnCapBytes + 1) .. MaxLen}

(* ------------------------------- state --------------------------------- *)

VARIABLES
  phase,          \* "load" (constructors), "main", "exit" (destructors ran)
  core,           \* core_get() != NULL: the engine core context exists
  core_pre,       \* the core context existed before the constructor ran
  core_init_run,  \* static bool core_init_run
  order,          \* static bn_t order (0: never written)
  orderLive,      \* order holds storage (bn_new done, bn_free not yet)
  modSigned,      \* the engine build's bn_mod keeps the dividend's sign
  inits,          \* how often init_relic ran
  cleans,         \* how often the teardown body of clean_relic ran
  bn,             \* the caller's wrapper_bn_t objects
  g1,             \* the caller's wrapper_g1_t objects
  g2,             \* the caller's wrapper_g2_t object
  gt,             \* the caller's wrapper_gt_t object
  call            \* the last wrapper call: operands, outcome, caller's view

vars == <<phase, core, core_pre, core_init_run, order, orderLive, modSigned, inits,
          cleans, bn, g1, g2, gt, call>>

grpVars == <<g1, g2, gt>>

lifeVars == <<core, core_pre, core_init_run, order, orderLive, modSigned, inits, cleans>>

(* ------------------------------- engine -------------------------------- *)

\* bn_sign(a) == RLC_NEG
bn_sign_neg(a) == a < 0

\* bn_mod(c, a, m): the remainder of a by m > 0.  For a negative dividend
\* the build either keeps the dividend's sign or returns the least
\* non-negative residue.
bn_mod(a, m, signed) ==
  IF a >= 0 THEN a % m
  ELSE IF signed THEN 0 - ((0 - a) % m)
  ELSE a % m

\* bn_mod_inv(c, a, m): the Bezout coefficient of a, which the extended
\* Euclid returns as a negative representative in a signed build.
bn_mod_inv(a, m, signed) ==
  LET c == a % m
      I == {i \in 1 .. (m - 1) : (c * i) % m = 1}
  IN IF I = {} THEN 0
     ELSE LET i == CHOOSE j \in I : TRUE
          IN IF signed /\ 2 * i > m THEN i - m ELSE i

\* bn_read_bin(a, bin, len): big-endian bytes to integer.
RECURSIVE bn_read_bin(_)
bn_read_bin(bytes) ==
  IF bytes = <<>> THEN 0
  ELSE bn_read_bin(SubSeq(bytes, 1, Len(bytes) - 1)) * ByteRadix
         + bytes[Len(bytes)]

\* bn_read_bin raises when the bytes do not fit the fixed-size bn_t.
bn_read_bin_throws(bytes) == Len(bytes) > BnCapBytes

(* ------------------------- the caller's view --------------------------- *)

\* wrapper.h: the functions declared with an int result; every other
\* function is declared void, so its caller has no result to look at.
HeaderReturnsInt ==
  {"wrapper_bn_inv", "wrapper_bn_read_bin", "wrapper_g1_read_bin",
   "wrapper_g2_read_bin", "wrapper_gt_read_bin"}

Seen(op, rc) == IF op \in HeaderReturnsInt THEN rc ELSE "void"

NoCall ==
  [op |-> "none", dst |-> 0, a |-> 0, b |-> 0, pts |-> <<>>, ks |-> <<>>,
   bytes |-> <<>>, reduce |-> FALSE, thrown |-> FALSE, rc |-> "none",
   seen |-> "none", modUsed |-> 0, invCalled |-> FALSE, err |-> "none"]

\* a call that ran its RLC_TRY block to the end
Done(op, dst, a, b, m) ==
  [NoCall EXCEPT !.op = op, !.dst = dst, !.a = a, !.b = b, !.rc = RLC_OK,
                 !.seen = Seen(op, RLC_OK), !.modUsed = m]

(* ------------------------------ lifecycle ------------------------------ *)

Init ==
  /\ phase = "load"
  /\ core \in BOOLEAN
  /\ core_pre = core
  /\ core_init_run = FALSE
  /\ order = 0
  /\ orderLive = FALSE
  /\ modSigned \in BOOLEAN
  /\ inits = 0
  /\ cleans = 0
  /\ bn = [i \in Regs |-> 0]
  /\ g1 = [i \in Regs |-> 0]
  /\ g2 = 0
  /\ gt = 1
  /\ call = NoCall

\* init_relic without "core_init_run = true"
init_relic_noflag ==
  /\ phase = "load"
  /\ phase' = "main"
  /\ core' = TRUE
  /\ core_init_run' = core_init_run
  /\ order' = CurveOrder
  /\ orderLive' = TRUE
  /\ inits' = inits + 1
  /\ UNCHANGED <<core_pre, modSigned, cleans, bn, grpVars, call>>

\* __attribute__((constructor)) init_relic
init_relic ==
  /\ phase = "load"
  /\ phase' = "main"
  /\ core' = TRUE
  /\ core_init_run' = (IF ~core THEN TRUE ELSE core_init_run)
  /\ order' = CurveOrder
  /\ orderLive' = TRUE
  /\ inits' = inits + 1
  /\ UNCHANGED <<core_pre, modSigned, cleans, bn, grpVars, call>>

\* __attribute__((destructor)) clean_relic
clean_relic ==
  /\ phase = "main"
  /\ phase' = "exit"
  /\ IF core_init_run
       THEN /\ orderLive' = FALSE
            /\ core_init_run' = FALSE
            /\ core' = FALSE
            /\ cleans' = cleans + 1
       ELSE UNCHANGED <<orderLive, core_init_run, core, cleans>>
  /\ UNCHANGED <<core_pre, order, modSigned, inits, bn, grpVars, call>>

(* ------------------------------ Zr calls ------------------------------- *)

\* the step of a call that writes dst and reports c
Ret(dst, v, c) ==
  /\ phase = "main"
  /\ bn' = [bn EXCEPT ![dst] = v]
  /\ call' = c
  /\ phase' = phase
  /\ UNCHANGED <<lifeVars, grpVars>>

wrapper_bn_zero(dst) ==
  Ret(dst, 0, Done("wrapper_bn_zero", dst, 0, 0, 0))

wrapper_bn_one(dst) ==
  Ret(dst, 1, Done("wrapper_bn_one", dst, 0, 0, 0))

wrapper_bn_copy(dst, src) ==
  Ret(dst, bn[src], Done("wrapper_bn_copy", dst, 0, 0, 0))

bn_add_value(a, b, m, signed) == bn_mod(a + b, m, signed)

wrapper_bn_add_assign(dst, rhs) ==
  Ret(dst, bn_add_value(bn[dst], bn[rhs], order, modSigned),
      Done("wrapper_bn_add_assign", dst, 0, 0, order))

wrapper_bn_add(dst, lhs, rhs) ==
  Ret(dst, bn_add_value(bn[lhs], bn[rhs], order, modSigned),
      Done("wrapper_bn_add", dst, 0, 0, order))

bn_double_value(a, m, signed) == bn_mod(2 * a, m, signed)

wrapper_bn_double(dst, src) ==
  Ret(dst, bn_double_value(bn[src], order, modSigned),
      Done("wrapper_bn_double", dst, 0, 0, order))

\* wrapper_bn_neg without its bn_mod
bn_neg_nomod(a, m, signed) == m - a

bn_neg_value(a, m, signed) == bn_mod(m - a, m, signed)

\* wrapper_bn_neg with bn_sub(order, order, bn->value): the difference lands
\* in the static order
wrapper_bn_neg_clobber(dst) ==
  /\ phase = "main"
  /\ bn[dst] \in 1 .. (order - 1)
  /\ order' = order - bn[dst]
  /\ call' = Done("wrapper_bn_neg", dst, bn[dst], 0, order)
  /\ UNCHANGED <<phase, core, core_pre, core_init_run, orderLive, modSigned,
                 inits, cleans, bn, grpVars>>

wrapper_bn_neg(dst) ==
  Ret(dst, bn_neg_value(bn[dst], order, modSigned),
      Done("wrapper_bn_neg", dst, bn[dst], 0, order))

\* wrapper_bn_sub without the add-back of order
bn_sub_noaddback(a, b, m, signed) == bn_mod(a - b, m, signed)

bn_sub_value(a, b, m, signed) ==
  LET d == bn_mod(a - b, m, signed)
  IN IF bn_sign_neg(d) THEN d + m ELSE d

\* the normalization of wrapper_bn_sub applied to a raw value: bn_mod, then
\* bn_add of order if the remainder is negative
bn_sub_norm(v, m, signed) ==
  LET d == bn_mod(v, m, signed)
  IN IF bn_sign_neg(d) THEN d + m ELSE d

wrapper_bn_sub_assign(dst, rhs) ==
  Ret(dst, bn_sub_value(bn[dst], bn[rhs], order, modSigned),
      Done("wrapper_bn_sub_assign", dst, bn[dst], bn[rhs], order))

wrapper_bn_sub(dst, lhs, rhs) ==
  Ret(dst, bn_sub_value(bn[lhs], bn[rhs], order, modSigned),
      Done("wrapper_bn_sub", dst, bn[lhs], bn[rhs], order))

\* wrapper_bn_mul with bn_add in the place of bn_mul
bn_mul_as_add(a, b, m, signed) == bn_mod(a + b, m, signed)

bn_mul_value(a, b, m, signed) ==
  LET p == a * b
  IN IF bn_sign_neg(p) THEN p + m ELSE bn_mod(p, m, signed)

wrapper_bn_mul_assign(dst, rhs) ==
  /\ phase = "main"
  /\ bn_mul_value(bn[dst], bn[rhs], order, modSigned) >= 0 - MaxAbs
  /\ Ret(dst, bn_mul_value(bn[dst], bn[rhs], order, modSigned),
         Done("wrapper_bn_mul_assign", dst, bn[dst], bn[rhs], order))

wrapper_bn_mul(dst, lhs, rhs) ==
  /\ phase = "main"
  /\ bn_mul_value(bn[lhs], bn[rhs], order, modSigned) >= 0 - MaxAbs
  /\ Ret(dst, bn_mul_value(bn[lhs], bn[rhs], order, modSigned),
         Done("wrapper_bn_mul", dst, bn[lhs], bn[rhs], order))

bn_inv_value(a, m, signed) ==
  LET i == bn_mod_inv(a, m, signed)
  IN IF bn_sign_neg(i) THEN i + m ELSE i

\* wrapper_bn_inv without the bn_is_zero test
wrapper_bn_inv_nocheck(val) ==
  /\ phase = "main"
  /\ Ret(val, bn_inv_value(bn[val], order, modSigned),
         [Done("wrapper_bn_inv", val, bn[val], 0, order)
            EXCEPT !.invCalled = TRUE])

wrapper_bn_inv(val) ==
  /\ phase = "main"
  /\ IF bn[val] = 0
       THEN Ret(val, bn[val],
                [NoCall EXCEPT !.op = "wrapper_bn_inv", !.dst = val,
                               !.a = bn[val], !.rc = RLC_ERR,
                               !.seen = Seen("wrapper_bn_inv", RLC_ERR)])
       ELSE Ret(val, bn_inv_value(bn[val], order, modSigned),
                [Done("wrapper_bn_inv", val, bn[val], 0, order)
                   EXCEPT !.invCalled = TRUE])

\* the value wrapper_bn_read_bin leaves in dst when the engine did not raise
bn_read_value(bytes, reduce, m, signed) ==
  IF reduce THEN bn_mod(bn_read_bin(bytes), m, signed)
  ELSE bn_read_bin(bytes)

\* the common shape of wrapper_bn_read_bin and wrapper_bn_rand
ReadCall(op, dst, bytes, reduce) ==
  IF bn_read_bin_throws(bytes)
    THEN Ret(dst, bn[dst],
             [NoCall EXCEPT !.op = op, !.dst = dst,
                            !.bytes = bytes, !.reduce = reduce,
                            !.thrown = TRUE, !.rc = RLC_ERR,
                            !.seen = Seen(op, RLC_ERR)])
    ELSE Ret(dst, bn_read_value(bytes, reduce, order, modSigned),
             [Done(op, dst, 0, 0, IF reduce THEN order ELSE 0)
                EXCEPT !.bytes = bytes, !.reduce = reduce])

wrapper_bn_read_bin(dst, bytes, reduce) ==
  ReadCall("wrapper_bn_read_bin", dst, bytes, reduce)

wrapper_bn_rand(dst, bytes) ==
  ReadCall("wrapper_bn_rand", dst, bytes, TRUE)

ZrNext ==
  \/ init_relic
  \/ clean_relic
  \/ \E d \in Regs : wrapper_bn_zero(d)
  \/ \E d \in Regs : wrapper_bn_one(d)
  \/ \E d, s \in Regs : wrapper_bn_copy(d, s)
  \/ \E d, s \in Regs : wrapper_bn_add_assign(d, s)
  \/ \E d, l, s \in Regs : wrapper_bn_add(d, l, s)
  \/ \E d, s \in Regs : wrapper_bn_double(d, s)
  \/ \E d \in Regs : wrapper_bn_neg(d)
  \/ \E d, s \in Regs : wrapper_bn_sub_assign(d, s)
  \/ \E d, l, s \in Regs : wrapper_bn_sub(d, l, s)
  \/ \E d, s \in Regs : wrapper_bn_mul_assign(d, s)
  \/ \E d, l, s \in Regs : wrapper_bn_mul(d, l, s)
  \/ \E d \in Regs : wrapper_bn_inv(d)
  \/ \E d \in Regs, s \in ByteStrings, red \in BOOLEAN :
        wrapper_bn_read_bin(d, s, red)
  \/ \E d \in Regs, s \in ByteStrings : wrapper_bn_rand(d, s)

Spec == Init /\ [][ZrNext]_vars

(* --------------------------- engine: groups ---------------------------- *)

\* ep_param_set_any_pairf(): the configured curve.  E(Fp) has G1Cofactor * r
\* points and E'(Fp2) has G2Cofactor * r; a point is written by its index
\* in the cyclic group, 0 being the point at infinity, and the order-r
\* subgroup is the multiples of the cofactor.  GT is the order-r subgroup
\* of the units of the field with GtPrime elements, generated by GtBase.
G1Cofactor == 2
G2Cofactor == 3
GtPrime == 29
GtBase == 16

\* the length of a point encoding
PointLen == 1

G1Size == G1Cofactor * CurveOrder
G2Size == G2Cofactor * CurveOrder

g1_get_gen == G1Cofactor
g2_get_gen == G2Cofactor

g1_add(p, q) == (p + q) % G1Size
g2_add(p, q) == (p + q) % G2Size

\* g1_mul reducing the product by r instead of the curve group's order
g1_mul_short(p, k) == (k * p) % CurveOrder

g1_mul(p, k) == (k * p) % G1Size
g2_mul(p, k) == (k * p) % G2Size

\* g1_is_valid / g2_is_valid: on the curve and killed by r
g1_is_valid(p) == p \in 0 .. (G1Size - 1) /\ (CurveOrder * p) % G1Size = 0
g2_is_valid(p) == p \in 0 .. (G2Size - 1) /\ (CurveOrder * p) % G2Size = 0

\* g1_read_bin / g2_read_bin raise ERR_NO_BUFFER on a wrong length and
\* ERR_NO_VALID when the bytes name no point of the curve; they accept
\* every point of the curve.
point_read_throws(bytes, n) ==
  \/ Len(bytes) # PointLen
  \/ bn_read_bin(bytes) >= n

point_read_bin(bytes) == bn_read_bin(bytes)

\* x^e in the field with GtPrime elements, e >= 0
RECURSIVE fp_exp(_, _)
fp_exp(x, e) == IF e = 0 THEN 1 ELSE (x * fp_exp(x, e - 1)) % GtPrime

\* gt_mul: the group law of GT
gt_mul(x, y) == (x * y) % GtPrime

\* gt_exp(c, a, k): a negative exponent inverts
gt_exp(x, k) == fp_exp(x, k % (GtPrime - 1))

\* gt_is_valid: in the order-r subgroup
gt_is_valid(x) == x \in 1 .. (GtPrime - 1) /\ fp_exp(x, CurveOrder) = 1

\* pc_map(e, p, q): the pairing, bilinear and non-degenerate on G1 x G2
pc_map(p, q) == fp_exp(GtBase, (p * q) % CurveOrder)

gt_get_gen == pc_map(g1_get_gen, g2_get_gen)

(* ---------------------------- group calls ------------------------------ *)

\* the step of a call that writes the G1 object dst
RetG1(dst, v, c) ==
  /\ phase = "main"
  /\ g1' = [g1 EXCEPT ![dst] = v]
  /\ call' = c
  /\ phase' = phase
  /\ UNCHANGED <<lifeVars, bn, g2, gt>>

RetG2(v, c) ==
  /\ phase = "main"
  /\ g2' = v
  /\ call' = c
  /\ phase' = phase
  /\ UNCHANGED <<lifeVars, bn, g1, gt>>

RetGT(v, c) ==
  /\ phase = "main"
  /\ gt' = v
  /\ call' = c
  /\ phase' = phase
  /\ UNCHANGED <<lifeVars, bn, g1, g2>>

Threw(op, dst, bytes) ==
  [NoCall EXCEPT !.op = op, !.dst = dst, !.bytes = bytes, !.thrown = TRUE,
                 !.rc = RLC_ERR, !.seen = Seen(op, RLC_ERR)]

wrapper_g1_neutral(dst) ==
  RetG1(dst, 0, Done("wrapper_g1_neutral", dst, 0, 0, 0))

wrapper_g1_generator(dst) ==
  RetG1(dst, g1_get_gen, Done("wrapper_g1_generator", dst, 0, 0, 0))

wrapper_g1_add(dst, lhs, rhs) ==
  RetG1(dst, g1_add(g1[lhs], g1[rhs]),
        Done("wrapper_g1_add", dst, g1[lhs], g1[rhs], 0))

wrapper_g1_mul(dst, lhs, k) ==
  RetG1(dst, g1_mul(g1[lhs], k),
        [Done("wrapper_g1_mul", dst, g1[lhs], 0, 0) EXCEPT !.ks = <<k>>])

wrapper_g1_read_bin(dst, bytes) ==
  IF point_read_throws(bytes, G1Size)
    THEN RetG1(dst, g1[dst], Threw("wrapper_g1_read_bin", dst, bytes))
    ELSE RetG1(dst, point_read_bin(bytes),
               [Done("wrapper_g1_read_bin", dst, 0, 0, 0)
                  EXCEPT !.bytes = bytes])

wrapper_g2_generator ==
  RetG2(g2_get_gen, Done("wrapper_g2_generator", 1, 0, 0, 0))

wrapper_g2_add_assign ==
  RetG2(g2_add(g2, g2), Done("wrapper_g2_add_assign", 1, g2, g2, 0))

wrapper_g2_mul(k) ==
  RetG2(g2_mul(g2, k),
        [Done("wrapper_g2_mul", 1, g2, 0, 0) EXCEPT !.ks = <<k>>])

wrapper_g2_read_bin(bytes) ==
  IF point_read_throws(bytes, G2Size)
    THEN RetG2(g2, Threw("wrapper_g2_read_bin", 1, bytes))
    ELSE RetG2(point_read_bin(bytes),
               [Done("wrapper_g2_read_bin", 1, 0, 0, 0)
                  EXCEPT !.bytes = bytes])

wrapper_gt_generator ==
  RetGT(gt_get_gen, Done("wrapper_gt_generator", 1, 0, 0, 0))

wrapper_gt_mul(k) ==
  RetGT(gt_exp(gt, k),
        [Done("wrapper_gt_mul", 1, gt, 0, 0) EXCEPT !.ks = <<k>>])

wrapper_pc_map(i) ==
  RetGT(pc_map(g1[i], g2), Done("wrapper_pc_map", 1, g1[i], g2, 0))

\* the sum of ks[i] * pts[i], as one batched engine call computes it
RECURSIVE DotProduct(_, _)
DotProduct(pts, ks) ==
  IF pts = <<>> THEN 0
  ELSE Head(ks) * Head(pts) + DotProduct(Tail(pts), Tail(ks))

g1_mul_sim_lot(pts, ks) == DotProduct(pts, ks) % G1Size

\* simultaneous_mul(points[], scalars[]) over wrapper_g1_simmul
simultaneous_mul(dst, pts, ks) ==
  IF Len(pts) # Len(ks)
    THEN RetG1(dst, g1[dst],
               [NoCall EXCEPT !.op = "simultaneous_mul", !.dst = dst,
                              !.pts = pts, !.ks = ks, !.rc = RLC_ERR,
                              !.seen = RLC_ERR,
                              !.err = "DimensionMismatch"])
    ELSE RetG1(dst, g1_mul_sim_lot(pts, ks),
               [NoCall EXCEPT !.op = "simultaneous_mul", !.dst = dst,
                              !.pts = pts, !.ks = ks, !.rc = RLC_OK,
                              !.seen = RLC_OK])

\* the scalars handed to the group calls: the canonical ones and r
GrpScalars == 0 .. CurveOrder

\* the bytes handed to the point readers: infinity, a point outside the
\* subgroup, a point inside it, no point at all
PointBytes == {0, 1, 2 * G1Cofactor * G2Cofactor, ByteRadix - 1}

PointStrings == {<<>>} \cup {<<b>> : b \in PointBytes} \cup {<<0, 0>>}

\* the scalars handed to the batched call
SimScalars == {0, 1, 3, CurveOrder - 1}

ScalarSeqs == {<<k>> : k \in SimScalars}
                \cup {<<k, l>> : k \in SimScalars, l \in SimScalars}

G1Next ==
  \/ init_relic
  \/ clean_relic
  \/ \E d \in Regs : wrapper_g1_neutral(d)
  \/ \E d \in Regs : wrapper_g1_generator(d)
  \/ \E d, l, s \in Regs : wrapper_g1_add(d, l, s)
  \/ \E d, l \in Regs, k \in GrpScalars : wrapper_g1_mul(d, l, k)
  \/ \E d \in Regs, s \in PointStrings : wrapper_g1_read_bin(d, s)
  \/ \E d \in Regs, n \in 1 .. 2, ks \in ScalarSeqs :
        simultaneous_mul(d, SubSeq(<<g1[1], g1[2]>>, 1, n), ks)

SpecG1 == Init /\ [][G1Next]_vars

PairNext ==
  \/ init_relic
  \/ clean_relic
  \/ wrapper_g1_generator(1)
  \/ \E k \in GrpScalars : wrapper_g1_mul(1, 1, k)
  \/ \E s \in PointStrings : wrapper_g1_read_bin(1, s)
  \/ wrapper_g2_generator
  \/ wrapper_g2_add_assign
  \/ \E k \in GrpScalars : wrapper_g2_mul(k)
  \/ \E s \in PointStrings : wrapper_g2_read_bin(s)
  \/ wrapper_gt_generator
  \/ \E k \in GrpScalars : wrapper_gt_mul(k)
  \/ wrapper_pc_map(1)

SpecPair == Init /\ [][PairNext]_vars

(* ------------------------------- claims -------------------------------- *)

\* the Zr calls that produce a scalar
ZrProducers ==
  {"wrapper_bn_zero", "wrapper_bn_one", "wrapper_bn_add_assign",
   "wrapper_bn_add", "wrapper_bn_double", "wrapper_bn_neg",
   "wrapper_bn_sub_assign", "wrapper_bn_sub", "wrapper_bn_mul_assign",
   "wrapper_bn_mul", "wrapper_bn_inv", "wrapper_bn_read_bin",
   "wrapper_bn_rand"}

\* the Zr calls that reduce by the group order
ZrReducers ==
  {"wrapper_bn_add_assign", "wrapper_bn_add", "wrapper_bn_double",
   "wrapper_bn_neg", "wrapper_bn_sub_assign", "wrapper_bn_sub",
   "wrapper_bn_mul_assign", "wrapper_bn_mul", "wrapper_bn_inv",
   "wrapper_bn_rand"}

Canonical(v) == 0 <= v /\ v < CurveOrder

\* C1: every scalar produced by a Zr call that returned success has a
\* value v with 0 <= v < r.
C1_CanonicalRange ==
  (call.op \in ZrProducers /\ call.rc = RLC_OK) => Canonical(bn[call.dst])

\* C2: from_bytes with reduce = false fails for every byte string whose
\* big-endian value is >= r and succeeds with exactly that value otherwise.
C2_StrictDecode ==
  (call.op = "wrapper_bn_read_bin" /\ ~call.reduce) =>
     IF bn_read_bin(call.bytes) >= CurveOrder
       THEN call.rc = RLC_ERR
       ELSE call.rc = RLC_OK /\ bn[call.dst] = bn_read_bin(call.bytes)

\* C3: invert of the additive identity returns an error without calling
\* the engine's modular inverse and leaves the operand zero; invert of a
\* canonical non-zero scalar returns success.
C3_InvertZero ==
  call.op = "wrapper_bn_inv" =>
     /\ call.a = 0 =>
          /\ call.rc = RLC_ERR
          /\ call.seen = RLC_ERR
          /\ ~call.invCalled
          /\ bn[call.dst] = 0
     /\ (Canonical(call.a) /\ call.a # 0) =>
          /\ call.rc = RLC_OK
          /\ call.invCalled

C3_Witness ==
  /\ call.op = "wrapper_bn_inv"
  /\ call.a = 0
  /\ call.rc = RLC_ERR
  /\ bn[call.dst] = 0

\* C4: every G1 or G2 element for which read_bytes returns success
\* satisfies is_valid.
C4_ReadValid ==
  /\ (call.op = "wrapper_g1_read_bin" /\ call.rc = RLC_OK)
        => g1_is_valid(g1[call.dst])
  /\ (call.op = "wrapper_g2_read_bin" /\ call.rc = RLC_OK)
        => g2_is_valid(g2)

C7_ExplicitError == call.thrown => call.seen = RLC_ERR

PairScalars == (0 - MaxAbs) .. (CurveOrder + 1)

\* C9: for valid P in G1, Q in G2 and all scalars a, b, the pairing of a*P
\* and b*Q is the pairing of P and Q raised to the Zr product of a and b.
C9_Bilinear ==
  (/\ call.op = "wrapper_pc_map"
   /\ g1_is_valid(call.a)
   /\ g2_is_valid(call.b))
    => \A a \in PairScalars, b \in PairScalars :
          pc_map(g1_mul(call.a, a), g2_mul(call.b, b))
            = gt_exp(gt, bn_mul_value(a, b, order, modSigned))

C9_Witness ==
  /\ call.op = "wrapper_pc_map"
  /\ g1_is_valid(call.a)
  /\ g2_is_valid(call.b)
  /\ call.a # 0
  /\ call.b # 0
  /\ call.a # g1_get_gen
  /\ gt # 1
  /\ gt_is_valid(gt)

\* C10: for a canonical scalar a, negate(a) is (r - a) mod r, negate(0) is
\* 0 and add(a, negate(a)) is zero.
C10_Negate ==
  (call.op = "wrapper_bn_neg" /\ Canonical(call.a)) =>
     /\ call.rc = RLC_OK
     /\ bn[call.dst] = (CurveOrder - call.a) % CurveOrder
     /\ call.a = 0 => bn[call.dst] = 0
     /\ bn_add_value(call.a, bn[call.dst], order, modSigned) = 0

C10_Witness ==
  /\ call.op = "wrapper_bn_neg"
  /\ call.a = 0
  /\ bn[call.dst] = 0
  /\ modSigned

\* C11: for canonical scalars a, b, sub and sub_assign return (a - b) mod r
\* as a value in [0, r), whether the engine's bn_mod of a negative
\* difference is negative or already non-negative.
C11_SubCanonical ==
  (/\ call.op \in {"wrapper_bn_sub", "wrapper_bn_sub_assign"}
   /\ Canonical(call.a)
   /\ Canonical(call.b))
    => /\ call.rc = RLC_OK
       /\ Canonical(bn[call.dst])
       /\ bn[call.dst] = (call.a - call.b) % CurveOrder
       /\ bn_add_value(bn[call.dst], call.b, order, modSigned) = call.a

C11_Witness ==
  /\ call.op = "wrapper_bn_sub_assign"
  /\ Canonical(call.a)
  /\ Canonical(call.b)
  /\ call.a < call.b
  /\ modSigned
  /\ bn_sign_neg(bn_mod(call.a - call.b, order, modSigned))
  /\ bn[call.dst] = call.a - call.b + CurveOrder

\* C12: for the scalars that successful Zr calls produce, mul and
\* mul_assign return what the normalization of sub (bn_mod, then add r if
\* negative) makes of the raw product a * b, namely (a * b) mod r in [0, r).
C12_MulAgreesWithSub ==
  (/\ call.op \in {"wrapper_bn_mul", "wrapper_bn_mul_assign"}
   /\ call.rc = RLC_OK)
    => /\ bn[call.dst] = bn_sub_norm(call.a * call.b, order, modSigned)
       /\ bn[call.dst] = (call.a * call.b) % CurveOrder
       /\ Canonical(bn[call.dst])

====
